---------------------------- MODULE Spec2Model ----------------------------
(***************************************************************************)
(* Lexicon-based sentiment analysis: the text preprocessor and the         *)
(* sentiment/emotion scorer of NLP_Sentiment_Analysis_Mini_Project.py,     *)
(* run by one caller or by several callers whose steps interleave.         *)
(* The /analyze endpoint that calls both for a request, and the dashboard  *)
(* script that sends the requests and keeps the history and the counts.    *)
(*                                                                         *)
(* Representation.  A Python str that is processed character by character  *)
(* (the text of preprocess_text) is a sequence of one-character strings;   *)
(* a token is a string.  A float is the exact rational [num, den] it       *)
(* approximates: for the token counts within the bounds below the float    *)
(* comparisons and round(x, 2) of the source give the same answers as the  *)
(* exact arithmetic (the ratios differ from 0.4, 0.6 and from every        *)
(* rounding tie by far more than the float error; a tie at the third       *)
(* decimal needs at least 16 polarity words).  A dict is the sequence of   *)
(* its <<key, value>> items in insertion order.                            *)
(***************************************************************************)
EXTENDS Integers, Sequences, FiniteSets, TLC

VARIABLES
  POSITIVE_WORDS,   \* module global, list of str
  NEGATIVE_WORDS,   \* module global, list of str
  EMOTION_LEXICON,  \* module global, dict emotion -> list of str
  STOPWORDS,        \* module global, list of str
  op,               \* op[c]: the function caller c runs
  arg,              \* arg[c]: the argument object caller c passes
  pc,               \* pc[c]: caller c's position in the function
  frame,            \* frame[k]: the local variables of an activation
  result,           \* result[c]: the value returned to caller c
  request,          \* request[c]: the HTTP request worker c handles
  hpc,              \* hpc[c]: worker c's position in analyze()
  hlocal,           \* hlocal[c]: the local variables of analyze()
  response,         \* response[c]: the HTTP response worker c returns
  calls,            \* calls[c]: the core functions analyze() has called
  stats,            \* dashboard: let stats
  history,          \* dashboard: let history
  pending,          \* dashboard: the fetches awaiting their response
  btn_disabled,     \* dashboard: analyzeBtn.disabled
  newest,           \* dashboard: the latest successful result received
  outcome           \* dashboard: how the latest attempt ended

\* the /analyze endpoint
endpoint == << request, hpc, hlocal, response, calls >>

\* the dashboard client
dashboard == << stats, history, pending, btn_disabled, newest, outcome >>

vars == << POSITIVE_WORDS, NEGATIVE_WORDS, EMOTION_LEXICON, STOPWORDS,
           op, arg, pc, frame, result, endpoint, dashboard >>

lexicons == << POSITIVE_WORDS, NEGATIVE_WORDS, EMOTION_LEXICON, STOPWORDS >>

(***************************************************************************)
(* Bounds of the model.                                                    *)
(***************************************************************************)
\* callers that may run at once
NumCallers == 2
\* longest list of tokens of every kind given to analyze_sentiment
MaxTokens == 4
\* longest list of polarity words only given to analyze_sentiment
MaxPolarTokens == 7
\* most pieces (a word and a separator) a text given to preprocess_text is
\* made of
MaxPieces == 3
\* most pieces a text posted to /analyze is made of
MaxApiPieces == 2
\* most analyses the dashboard counts
MaxAnalyzed == 11
\* most requests of the dashboard in flight at once
MaxInFlight == 2
\* the dashboard sends texts of all kinds until this many analyses have been
\* started, and one text afterwards
MaxVaried == 2

Callers == 1..NumCallers

(***************************************************************************)
(* The shipped lexicons.                                                   *)
(***************************************************************************)
PositiveWordsInit ==
  << "good", "great", "excellent", "amazing", "wonderful", "fantastic",
     "love", "loved", "best", "awesome", "perfect", "beautiful", "happy",
     "excited", "joy", "brilliant", "outstanding", "superb", "pleased",
     "delighted", "satisfied", "impressive", "remarkable", "incredible",
     "exceptional", "magnificent", "terrific", "fabulous", "marvelous",
     "splendid", "enjoy", "enjoyed", "positive", "recommendation" >>

NegativeWordsInit ==
  << "bad", "terrible", "awful", "horrible", "worst", "hate", "hated",
     "poor", "disappointing", "disappointed", "sad", "angry", "frustrated",
     "annoyed", "upset", "pathetic", "useless", "waste", "disgusting",
     "appalling", "dreadful", "inferior", "substandard", "defective",
     "faulty", "broken", "damaged", "failed", "failure", "regret", "unhappy",
     "negative", "dissatisfied" >>

EmotionLexiconInit ==
  << << "joy",
        << "happy", "joy", "excited", "delighted", "cheerful", "pleased",
           "glad", "enjoy", "wonderful", "fantastic", "amazing" >> >>,
     << "sadness",
        << "sad", "unhappy", "disappointed", "depressed", "miserable",
           "gloomy", "sorrow", "grief", "heartbroken" >> >>,
     << "anger",
        << "angry", "mad", "furious", "annoyed", "irritated", "frustrated",
           "hate", "rage", "outraged", "hostile" >> >>,
     << "fear",
        << "afraid", "scared", "worried", "anxious", "nervous", "terrified",
           "fearful", "panic", "dread" >> >>,
     << "surprise",
        << "surprised", "amazed", "shocked", "astonished", "unexpected",
           "stunning", "wow", "incredible" >> >> >>

StopwordsInit ==
  << "the", "is", "at", "which", "on", "a", "an", "as", "are", "was", "were",
     "been", "be", "have", "has", "had", "do", "does", "did", "will",
     "would", "could", "should", "may", "might", "must", "can", "this",
     "that", "these", "those", "i", "you", "he", "she", "it", "we", "they",
     "them", "their", "what", "when", "where", "who", "why", "how", "all",
     "each", "every", "both", "few", "more", "most", "other", "some", "such",
     "no", "nor", "not", "only", "own", "same", "so", "than", "too", "very",
     "to", "of", "in", "for", "with", "by", "from" >>

(***************************************************************************)
(* Python values.                                                          *)
(***************************************************************************)
\* x in l, for a list l
InList(x, l) == \E k \in 1..Len(l) : l[k] = x

\* The characters of the model's texts, by class.  str.lower(), \w and \s
\* are modelled on these ASCII characters.
UpperLetters == << "A", "B", "C", "D", "E", "F", "G", "H", "I", "J", "K",
                   "L", "M", "N", "O", "P", "Q", "R", "S", "T", "U", "V",
                   "W", "X", "Y", "Z" >>

LowerLetters == << "a", "b", "c", "d", "e", "f", "g", "h", "i", "j", "k",
                   "l", "m", "n", "o", "p", "q", "r", "s", "t", "u", "v",
                   "w", "x", "y", "z" >>

Digits == << "0", "1", "2", "3", "4", "5", "6", "7", "8", "9" >>

\* a character the pattern \w matches
IsWordChar(ch) ==
  InList(ch, UpperLetters) \/ InList(ch, LowerLetters) \/ InList(ch, Digits)
    \/ ch = "_"

\* a character the pattern \s matches, and that str.split() splits on
IsSpaceChar(ch) == ch \in { " ", "\t", "\n", "\r", "\f" }

\* str.lower() of one character
LowerChar(ch) ==
  IF InList(ch, UpperLetters)
    THEN LowerLetters[CHOOSE k \in 1..Len(UpperLetters) : UpperLetters[k] = ch]
    ELSE ch

\* the str made of the characters cs
RECURSIVE Join(_)
Join(cs) == IF cs = << >> THEN "" ELSE cs[1] \o Join(Tail(cs))

\* Exact rationals, den > 0, in lowest terms.
RECURSIVE GCD(_, _)
GCD(a, b) == IF b = 0 THEN a ELSE GCD(b, a % b)

Abs(n) == IF n < 0 THEN -n ELSE n

Rat(n, d) ==
  LET g == GCD(Abs(n), Abs(d))
      s == IF d < 0 THEN -1 ELSE 1
  IN  [num |-> (s * n) \div g, den |-> (s * d) \div g]

R(n) == [num |-> n, den |-> 1]
RAdd(a, b) == Rat(a.num * b.den + b.num * a.den, a.den * b.den)
RSub(a, b) == Rat(a.num * b.den - b.num * a.den, a.den * b.den)
RMul(a, b) == Rat(a.num * b.num, a.den * b.den)
RLt(a, b) == a.num * b.den < b.num * a.den
RGt(a, b) == RLt(b, a)
RAbs(a) == [num |-> Abs(a.num), den |-> a.den]
RMin(a, b) == IF RLt(b, a) THEN b ELSE a

\* a / b of two ints: the quotient, or the exception Python raises
ZeroDivisionError == [raised |-> "ZeroDivisionError"]

Raised(v) == "raised" \in DOMAIN v

Divide(a, b) == IF b = 0 THEN ZeroDivisionError ELSE Rat(a, b)

\* dict.get(key, default), dict[key] = value and sum(dict.values()) for a
\* dict held as the sequence of its items
DictHas(d, key) == \E k \in 1..Len(d) : d[k][1] = key

DictGet(d, key, default) ==
  IF DictHas(d, key)
    THEN d[CHOOSE k \in 1..Len(d) : d[k][1] = key][2]
    ELSE default

DictSet(d, key, value) ==
  IF DictHas(d, key)
    THEN [k \in 1..Len(d) |-> IF d[k][1] = key THEN << key, value >> ELSE d[k]]
    ELSE Append(d, << key, value >>)

RECURSIVE SumValues(_)
SumValues(d) == IF d = << >> THEN 0 ELSE d[1][2] + SumValues(Tail(d))

(***************************************************************************)
(* preprocess_text, statement by statement.                                *)
(***************************************************************************)
\* text.lower()
Lower(text) == [k \in 1..Len(text) |-> LowerChar(text[k])]

\* re.sub(r'[^\w\s]', ' ', text)
SubSpecial(text) ==
  [k \in 1..Len(text) |->
     IF IsWordChar(text[k]) \/ IsSpaceChar(text[k]) THEN text[k] ELSE " "]

\* re.sub(r'\s+', ' ', text): each maximal run of whitespace becomes one space
RECURSIVE SubSpaceRuns(_, _)
SubSpaceRuns(text, k) ==
  IF k > Len(text) THEN << >>
  ELSE IF ~IsSpaceChar(text[k]) THEN << text[k] >> \o SubSpaceRuns(text, k + 1)
  ELSE IF k > 1 /\ IsSpaceChar(text[k - 1]) THEN SubSpaceRuns(text, k + 1)
  ELSE << " " >> \o SubSpaceRuns(text, k + 1)

\* str.strip()
RECURSIVE LStrip(_)
LStrip(text) ==
  IF text # << >> /\ IsSpaceChar(Head(text)) THEN LStrip(Tail(text)) ELSE text

RECURSIVE RStrip(_)
RStrip(text) ==
  IF text # << >> /\ IsSpaceChar(text[Len(text)])
    THEN RStrip(SubSeq(text, 1, Len(text) - 1))
    ELSE text

Strip(text) == RStrip(LStrip(text))

\* re.sub(r'\s+', ' ', text).strip()
CollapseWhitespace(text) == Strip(SubSpaceRuns(text, 1))

\* text.split(): the maximal runs of non-whitespace characters, in order
RECURSIVE SplitFrom(_, _, _)
SplitFrom(text, k, word) ==
  IF k > Len(text) THEN (IF word = "" THEN << >> ELSE << word >>)
  ELSE IF IsSpaceChar(text[k])
    THEN (IF word = "" THEN << >> ELSE << word >>) \o SplitFrom(text, k + 1, "")
    ELSE SplitFrom(text, k + 1, word \o text[k])

Split(text) == SplitFrom(text, 1, "")

\* A slip: the distinct words are counted.
WordCountDistinct(tokens) == Cardinality({ tokens[k] : k \in 1..Len(tokens) })

\* len(tokens), the count of the words before filtering
WordCount(tokens) == Len(tokens)

\* A slip: >= 2 for > 2.
KeepTokenFromTwo(token) == ~InList(token, STOPWORDS) /\ Len(token) >= 2

\* A slip: len(token) > 3.
KeepTokenFromFour(token) == ~InList(token, STOPWORDS) /\ Len(token) > 3

\* the condition of the list comprehension that filters the tokens
KeepToken(token) == ~InList(token, STOPWORDS) /\ Len(token) > 2

\* [token for token in tokens if token not in STOPWORDS and len(token) > 2]
FilterTokens(tokens) == SelectSeq(tokens, KeepToken)

\* the dict preprocess_text returns
PreprocessResult(original_text, text, word_count, filtered_tokens) ==
  [ original    |-> original_text,
    cleaned     |-> text,
    tokens      |-> filtered_tokens,
    word_count  |-> word_count,
    token_count |-> Len(filtered_tokens) ]

\* preprocess_text run from call to return
preprocess_text(text) ==
  LET cleaned == CollapseWhitespace(SubSpecial(Lower(text)))
      tokens  == Split(cleaned)
  IN  PreprocessResult(text, cleaned, WordCount(tokens), FilterTokens(tokens))

(***************************************************************************)
(* analyze_sentiment, statement by statement.                              *)
(***************************************************************************)
\* A slip: once an emotion is detected no other emotion is counted, so the
\* text gets the emotion of its first emotion word.
RECURSIVE CheckEmotionsFirstOnly(_, _, _)
CheckEmotionsFirstOnly(detected_emotions, token, k) ==
  IF k > Len(EMOTION_LEXICON) THEN detected_emotions
  ELSE LET emotion       == EMOTION_LEXICON[k][1]
           emotion_words == EMOTION_LEXICON[k][2]
       IN  CheckEmotionsFirstOnly(
             IF /\ InList(token, emotion_words)
                /\ (detected_emotions = << >> \/ DictHas(detected_emotions, emotion))
               THEN DictSet(detected_emotions, emotion,
                            DictGet(detected_emotions, emotion, 0) + 1)
               ELSE detected_emotions,
             token, k + 1)

\* for emotion, emotion_words in EMOTION_LEXICON.items(): from item k on
RECURSIVE CheckEmotions(_, _, _)
CheckEmotions(detected_emotions, token, k) ==
  IF k > Len(EMOTION_LEXICON) THEN detected_emotions
  ELSE LET emotion       == EMOTION_LEXICON[k][1]
           emotion_words == EMOTION_LEXICON[k][2]
       IN  CheckEmotions(
             IF InList(token, emotion_words)
               THEN DictSet(detected_emotions, emotion,
                            DictGet(detected_emotions, emotion, 0) + 1)
               ELSE detected_emotions,
             token, k + 1)

\* A slip: the emotion check comes first and a token that matched an emotion
\* is not checked for polarity.
ScoreTokenEmotionFirst(acc, token) ==
  LET detected == CheckEmotions(acc.detected_emotions, token, 1)
      matched  == detected # acc.detected_emotions
  IN  [ positive_score |->
          IF ~matched /\ InList(token, POSITIVE_WORDS)
            THEN acc.positive_score + 1 ELSE acc.positive_score,
        negative_score |->
          IF ~matched /\ InList(token, NEGATIVE_WORDS)
            THEN acc.negative_score + 1 ELSE acc.negative_score,
        detected_emotions |-> detected ]

\* the body of "for token in tokens", on the scores so far
ScoreToken(acc, token) ==
  [ positive_score |->
      IF InList(token, POSITIVE_WORDS)
        THEN acc.positive_score + 1 ELSE acc.positive_score,
    negative_score |->
      IF InList(token, NEGATIVE_WORDS)
        THEN acc.negative_score + 1 ELSE acc.negative_score,
    detected_emotions |-> CheckEmotions(acc.detected_emotions, token, 1) ]

\* A slip: every emotion starts in the dict with count 0.
InitialScoresAllEmotions ==
  [ positive_score |-> 0, negative_score |-> 0,
    detected_emotions |->
      [k \in 1..Len(EMOTION_LEXICON) |-> << EMOTION_LEXICON[k][1], 0 >>] ]

\* the scores before the first token
InitialScores ==
  [ positive_score |-> 0, negative_score |-> 0, detected_emotions |-> << >> ]

\* A slip: the test for no polarity word is missing.
NoPolarityUnchecked(total_score) == FALSE

\* if total_score == 0
NoPolarity(total_score) == total_score = 0

\* A slip: >= for >.
IsPositiveInclusive(positive_ratio) == ~RLt(positive_ratio, Rat(6, 10))

\* if positive_ratio > 0.6
IsPositive(positive_ratio) == RGt(positive_ratio, Rat(6, 10))

\* elif positive_ratio < 0.4
IsNegative(positive_ratio) == RLt(positive_ratio, Rat(4, 10))

\* A slip: the cap is forgotten.
PositiveConfidenceNoCap(positive_ratio) ==
  RAdd(R(60), RMul(RSub(positive_ratio, Rat(6, 10)), R(150)))

\* min(60 + (positive_ratio - 0.6) * 150, 98)
PositiveConfidence(positive_ratio) ==
  RMin(RAdd(R(60), RMul(RSub(positive_ratio, Rat(6, 10)), R(150))), R(98))

\* min(60 + (0.4 - positive_ratio) * 150, 98)
NegativeConfidence(positive_ratio) ==
  RMin(RAdd(R(60), RMul(RSub(Rat(4, 10), positive_ratio), R(150))), R(98))

\* 50 + abs(positive_ratio - 0.5) * 100
NeutralConfidence(positive_ratio) ==
  RAdd(R(50), RMul(RAbs(RSub(positive_ratio, Rat(5, 10))), R(100)))

\* "Calculate sentiment": the sentiment and the confidence, or the exception
\* the division raises
Classify(positive_score, negative_score) ==
  LET total_score == positive_score + negative_score
  IN  IF NoPolarity(total_score)
        THEN [sentiment |-> "neutral", confidence |-> R(50)]
      ELSE IF Raised(Divide(positive_score, total_score))
        THEN Divide(positive_score, total_score)
      ELSE LET positive_ratio == Divide(positive_score, total_score)
           IN  IF IsPositive(positive_ratio)
                 THEN [sentiment  |-> "positive",
                       confidence |-> PositiveConfidence(positive_ratio)]
               ELSE IF IsNegative(positive_ratio)
                 THEN [sentiment  |-> "negative",
                       confidence |-> NegativeConfidence(positive_ratio)]
               ELSE [sentiment  |-> "neutral",
                     confidence |-> NeutralConfidence(positive_ratio)]

\* min((count / total_emotions) * 100, 95)
EmotionScoreFraction(count, total_emotions) ==
  RMin(Rat(count, total_emotions), R(95))

\* min((count / total_emotions) * 100, 95)
EmotionScore(count, total_emotions) ==
  RMin(RMul(Rat(count, total_emotions), R(100)), R(95))

\* "Calculate emotion percentages"
EmotionScores(detected_emotions) ==
  LET total_emotions == SumValues(detected_emotions)
  IN  IF total_emotions > 0
        THEN [k \in 1..Len(detected_emotions) |->
                << detected_emotions[k][1],
                   EmotionScore(detected_emotions[k][2], total_emotions) >>]
        ELSE << >>

\* [token for token in tokens if token in words]
Keywords(tokens, words) == SelectSeq(tokens, LAMBDA token : InList(token, words))

\* A slip: round(x, 1).
Round1(x) ==
  LET q == (x.num * 10) \div x.den
      r == (x.num * 10) % x.den
  IN  Rat(IF 2 * r > x.den \/ (2 * r = x.den /\ q % 2 = 1) THEN q + 1 ELSE q,
          10)

\* round(x, 2) of a float x >= 0: the nearest multiple of 0.01, a tie to the
\* even one
Round2(x) ==
  LET q == (x.num * 100) \div x.den
      r == (x.num * 100) % x.den
  IN  Rat(IF 2 * r > x.den \/ (2 * r = x.den /\ q % 2 = 1) THEN q + 1 ELSE q,
          100)

\* the dict analyze_sentiment returns
AnalyzeResult(tokens, sentiment, confidence, pos_score, neg_score, emotions) ==
  [ sentiment      |-> sentiment,
    confidence     |-> Round2(confidence),
    positive_score |-> pos_score,
    negative_score |-> neg_score,
    emotions       |-> emotions,
    keywords       |-> [ positive |-> Keywords(tokens, POSITIVE_WORDS),
                         negative |-> Keywords(tokens, NEGATIVE_WORDS) ] ]

\* the scores after the loop over tokens[k..]
RECURSIVE ScoreTokens(_, _, _)
ScoreTokens(acc, tokens, k) ==
  IF k > Len(tokens) THEN acc
  ELSE ScoreTokens(ScoreToken(acc, tokens[k]), tokens, k + 1)

\* analyze_sentiment run from call to return
analyze_sentiment(tokens) ==
  LET acc == ScoreTokens(InitialScores, tokens, 1)
      cls == Classify(acc.positive_score, acc.negative_score)
  IN  IF Raised(cls) THEN cls
      ELSE AnalyzeResult(tokens, cls.sentiment, cls.confidence,
                         acc.positive_score, acc.negative_score,
                         EmotionScores(acc.detected_emotions))

(***************************************************************************)
(* The inputs of the model.                                                *)
(***************************************************************************)
\* The texts given to preprocess_text are made of pieces, a word followed by
\* a separator, either of which may be missing.  The words: a capitalised
\* lexicon word, a lexicon word, a stopword of three letters, and a word of
\* two characters that is no stopword (its underscore is a word character).
\* The separators: a run of two kinds of whitespace, and a punctuation mark.
PieceWords ==
  { << >>, << "S", "a", "d" >>, << "j", "o", "y" >>, << "h", "a", "d" >>,
    << "o", "_" >> }

PieceSeparators == { << >>, << " ", "\t" >>, << "!" >> }

Pieces == { w \o p : w \in PieceWords, p \in PieceSeparators } \ { << >> }

RECURSIVE TextsOf(_)
TextsOf(n) ==
  IF n = 0 THEN { << >> }
  ELSE LET shorter == TextsOf(n - 1)
       IN  shorter \cup { t \o p : t \in shorter, p \in Pieces }

\* The tokens of the lists given to analyze_sentiment: positive and joy,
\* negative and sadness, positive only, negative and anger, surprise only,
\* and in no lexicon.
Vocabulary == { "happy", "sad", "good", "hate", "wow", "fine" }

RECURSIVE TokenListsOf(_, _)
TokenListsOf(words, n) ==
  IF n = 0 THEN { << >> }
  ELSE LET shorter == TokenListsOf(words, n - 1)
       IN  shorter \cup { Append(t, w) : t \in shorter, w \in words }

\* Longer lists of polarity words, for the ratios and confidences that need
\* many of them: positive and joy, negative and sadness.
PolarVocabulary == { "happy", "sad" }

\* what a single caller passes to analyze_sentiment
TokenLists ==
  TokenListsOf(Vocabulary, MaxTokens)
    \cup TokenListsOf(PolarVocabulary, MaxPolarTokens)

\* what callers running at once pass
ConcTokenLists ==
  { << >>, << "happy", "sad" >>, << "sad", "wow", "happy" >> }

ConcTexts ==
  { << >>, << " ", "\t" >>, << "S", "a", "d", "!" >>,
    << "a", " ", "j", "o", "y" >> }

(***************************************************************************)
(* State.                                                                  *)
(***************************************************************************)
\* the local variables of a call, before its first statement
EmptyFrame ==
  [ original_text     |-> << >>,
    text              |-> << >>,
    tokens            |-> << >>,
    word_count        |-> 0,
    filtered_tokens   |-> << >>,
    i                 |-> 1,
    positive_score    |-> 0,
    negative_score    |-> 0,
    detected_emotions |-> << >>,
    sentiment         |-> "",
    confidence        |-> R(0),
    emotion_scores    |-> << >> ]

NoResult == [pending |-> TRUE]

\* A slip: the scores and the text being cleaned are module globals, one
\* set for all calls.
SharedFrame(c) == 1

\* the activation whose local variables the call of caller c uses: every call
\* has its own
FrameOf(c) == c

FirstStep(f) == IF f = "preprocess_text" THEN "p_lower" ELSE "a_init"

InitLexicons ==
  /\ POSITIVE_WORDS = PositiveWordsInit
  /\ NEGATIVE_WORDS = NegativeWordsInit
  /\ EMOTION_LEXICON = EmotionLexiconInit
  /\ STOPWORDS = StopwordsInit

\* the calls the callers in active are about to make; the others make none
InitCalls(active, texts, tokenLists) ==
  \E call \in [active -> ({"preprocess_text"} \X texts)
                           \cup ({"analyze_sentiment"} \X tokenLists)] :
    /\ op = [c \in Callers |-> IF c \in active THEN call[c][1] ELSE "none"]
    /\ arg = [c \in Callers |-> IF c \in active THEN call[c][2] ELSE << >>]
    /\ pc = [c \in Callers |->
               IF c \in active THEN FirstStep(call[c][1]) ELSE "idle"]
    /\ frame = [k \in Callers |-> EmptyFrame]
    /\ result = [c \in Callers |-> NoResult]

NoRequest == [body |-> "no request"]

NoResponse == [pending |-> TRUE]

\* no request has come in
IdleEndpoint ==
  /\ request = [c \in Callers |-> NoRequest]
  /\ hpc = [c \in Callers |-> "idle"]
  /\ hlocal = [c \in Callers |->
                 [text |-> << >>, preprocessed |-> NoResult, failure |-> << >>]]
  /\ response = [c \in Callers |-> NoResponse]
  /\ calls = [c \in Callers |-> << >>]

\* let stats = {...}; let history = []; and the page as loaded
InitDashboard ==
  /\ stats = [totalAnalyzed |-> 0, positive |-> 0, negative |-> 0, neutral |-> 0]
  /\ history = << >>
  /\ pending = << >>
  /\ btn_disabled = FALSE
  /\ newest = NoResult
  /\ outcome = NoResult

\* one caller, any input within the bounds
Init ==
  /\ InitLexicons
  /\ InitCalls({1}, TextsOf(MaxPieces), TokenLists)
  /\ IdleEndpoint
  /\ InitDashboard

\* every caller at once
InitConc ==
  /\ InitLexicons
  /\ InitCalls(Callers, ConcTexts, ConcTokenLists)
  /\ IdleEndpoint
  /\ InitDashboard

(***************************************************************************)
(* The steps of a call of preprocess_text by caller c.                     *)
(***************************************************************************)
Goto(c, label) == pc' = [pc EXCEPT ![c] = label]

\* original_text = text; text = text.lower()
PreprocessLower(c) ==
  /\ pc[c] = "p_lower"
  /\ frame' = [frame EXCEPT ![FrameOf(c)] =
                 [EmptyFrame EXCEPT !.original_text = arg[c],
                                    !.text = Lower(arg[c])]]
  /\ Goto(c, "p_sub")
  /\ UNCHANGED << endpoint, dashboard, lexicons, op, arg, result >>

\* text = re.sub(r'[^\w\s]', ' ', text)
PreprocessSubSpecial(c) ==
  /\ pc[c] = "p_sub"
  /\ frame' = [frame EXCEPT ![FrameOf(c)].text = SubSpecial(@)]
  /\ Goto(c, "p_space")
  /\ UNCHANGED << endpoint, dashboard, lexicons, op, arg, result >>

\* text = re.sub(r'\s+', ' ', text).strip()
PreprocessCollapse(c) ==
  /\ pc[c] = "p_space"
  /\ frame' = [frame EXCEPT ![FrameOf(c)].text = CollapseWhitespace(@)]
  /\ Goto(c, "p_split")
  /\ UNCHANGED << endpoint, dashboard, lexicons, op, arg, result >>

\* tokens = text.split(); word_count = len(tokens)
PreprocessSplit(c) ==
  /\ pc[c] = "p_split"
  /\ LET tokens == Split(frame[FrameOf(c)].text)
     IN  frame' = [frame EXCEPT ![FrameOf(c)].tokens = tokens,
                                ![FrameOf(c)].word_count = WordCount(tokens)]
  /\ Goto(c, "p_filter")
  /\ UNCHANGED << endpoint, dashboard, lexicons, op, arg, result >>

\* filtered_tokens = [...]
PreprocessFilter(c) ==
  /\ pc[c] = "p_filter"
  /\ frame' = [frame EXCEPT ![FrameOf(c)].filtered_tokens =
                 FilterTokens(frame[FrameOf(c)].tokens)]
  /\ Goto(c, "p_return")
  /\ UNCHANGED << endpoint, dashboard, lexicons, op, arg, result >>

\* return {...}
PreprocessReturn(c) ==
  /\ pc[c] = "p_return"
  /\ LET f == frame[FrameOf(c)]
     IN  result' = [result EXCEPT ![c] =
                      PreprocessResult(f.original_text, f.text, f.word_count,
                                       f.filtered_tokens)]
  /\ Goto(c, "done")
  /\ UNCHANGED << endpoint, dashboard, lexicons, op, arg, frame >>

(***************************************************************************)
(* The steps of a call of analyze_sentiment by caller c.  tokens is the    *)
(* list object the caller passed, arg[c].                                  *)
(***************************************************************************)
\* positive_score = 0; negative_score = 0; detected_emotions = {}
AnalyzeInit(c) ==
  /\ pc[c] = "a_init"
  /\ frame' = [frame EXCEPT ![FrameOf(c)] =
       [EmptyFrame EXCEPT
          !.positive_score = InitialScores.positive_score,
          !.negative_score = InitialScores.negative_score,
          !.detected_emotions = InitialScores.detected_emotions]]
  /\ Goto(c, "a_loop")
  /\ UNCHANGED << endpoint, dashboard, lexicons, op, arg, result >>

\* one iteration of "for token in tokens"
AnalyzeToken(c) ==
  /\ pc[c] = "a_loop"
  /\ LET f == frame[FrameOf(c)]
     IN  /\ f.i <= Len(arg[c])
         /\ LET acc == ScoreToken(
                         [ positive_score    |-> f.positive_score,
                           negative_score    |-> f.negative_score,
                           detected_emotions |-> f.detected_emotions ],
                         arg[c][f.i])
            IN  frame' = [frame EXCEPT ![FrameOf(c)] =
                  [f EXCEPT !.i = f.i + 1,
                            !.positive_score = acc.positive_score,
                            !.negative_score = acc.negative_score,
                            !.detected_emotions = acc.detected_emotions]]
  /\ UNCHANGED << endpoint, dashboard, lexicons, op, arg, pc, result >>

\* the loop ends; "Calculate sentiment", which may raise
AnalyzeClassify(c) ==
  /\ pc[c] = "a_loop"
  /\ LET f   == frame[FrameOf(c)]
         cls == Classify(f.positive_score, f.negative_score)
     IN  /\ f.i > Len(arg[c])
         /\ IF Raised(cls)
              THEN /\ result' = [result EXCEPT ![c] = cls]
                   /\ Goto(c, "raised")
                   /\ UNCHANGED frame
              ELSE /\ frame' = [frame EXCEPT ![FrameOf(c)] =
                         [f EXCEPT !.sentiment = cls.sentiment,
                                   !.confidence = cls.confidence]]
                   /\ Goto(c, "a_emotions")
                   /\ UNCHANGED result
  /\ UNCHANGED << endpoint, dashboard, lexicons, op, arg >>

\* "Calculate emotion percentages"
AnalyzeEmotions(c) ==
  /\ pc[c] = "a_emotions"
  /\ frame' = [frame EXCEPT ![FrameOf(c)].emotion_scores =
                 EmotionScores(frame[FrameOf(c)].detected_emotions)]
  /\ Goto(c, "a_return")
  /\ UNCHANGED << endpoint, dashboard, lexicons, op, arg, result >>

\* "Extract keywords" and return {...}
AnalyzeReturn(c) ==
  /\ pc[c] = "a_return"
  /\ LET f == frame[FrameOf(c)]
     IN  result' = [result EXCEPT ![c] =
                      AnalyzeResult(arg[c], f.sentiment, f.confidence,
                                    f.positive_score, f.negative_score,
                                    f.emotion_scores)]
  /\ Goto(c, "done")
  /\ UNCHANGED << endpoint, dashboard, lexicons, op, arg, frame >>

Next ==
  \E c \in Callers :
    \/ PreprocessLower(c)
    \/ PreprocessSubSpecial(c)
    \/ PreprocessCollapse(c)
    \/ PreprocessSplit(c)
    \/ PreprocessFilter(c)
    \/ PreprocessReturn(c)
    \/ AnalyzeInit(c)
    \/ AnalyzeToken(c)
    \/ AnalyzeClassify(c)
    \/ AnalyzeEmotions(c)
    \/ AnalyzeReturn(c)

Spec == Init /\ [][Next]_vars

SpecConc == InitConc /\ [][Next]_vars

(***************************************************************************)
(* What the calls are checked against.                                     *)
(***************************************************************************)
AnalyzeDone(c) == op[c] = "analyze_sentiment" /\ pc[c] = "done"

PreprocessDone(c) == op[c] = "preprocess_text" /\ pc[c] = "done"

\* the number of occurrences in tokens of the words of a list
CountIn(tokens, words) ==
  Cardinality({ k \in 1..Len(tokens) : InList(tokens[k], words) })

\* those occurrences, in the order of tokens
RECURSIVE OccurrencesFrom(_, _, _)
OccurrencesFrom(tokens, words, k) ==
  IF k > Len(tokens) THEN << >>
  ELSE (IF InList(tokens[k], words) THEN << tokens[k] >> ELSE << >>)
         \o OccurrencesFrom(tokens, words, k + 1)

PositiveCount(c) == CountIn(arg[c], POSITIVE_WORDS)

NegativeCount(c) == CountIn(arg[c], NEGATIVE_WORDS)

TotalCount(c) == PositiveCount(c) + NegativeCount(c)

\* the occurrences in tokens of the words of the k-th emotion
EmotionHits(tokens, k) == CountIn(tokens, EMOTION_LEXICON[k][2])

RECURSIVE TotalEmotionHitsFrom(_, _)
TotalEmotionHitsFrom(tokens, k) ==
  IF k > Len(EMOTION_LEXICON) THEN 0
  ELSE EmotionHits(tokens, k) + TotalEmotionHitsFrom(tokens, k + 1)

TotalEmotionHits(tokens) == TotalEmotionHitsFrom(tokens, 1)

\* conf is v = vnum / vden rounded to 2 decimal places: a multiple of 0.01
\* at most 0.005 from v
IsRoundedTo2(conf, vnum, vden) ==
  /\ 100 % conf.den = 0
  /\ 200 * Abs(conf.num * vden - vnum * conf.den) <= conf.den * vden

\* 10 * t times the confidence the specification gives p positive words of
\* t polarity words, t > 0
SpecConfidenceTimes10t(sentiment, p, t) ==
  LET capped(v) == IF v > 980 * t THEN 980 * t ELSE v
  IN  CASE sentiment = "positive" -> capped(600 * t + (10 * p - 6 * t) * 150)
        [] sentiment = "negative" -> capped(600 * t + (4 * t - 10 * p) * 150)
        [] OTHER -> 500 * t + Abs(10 * p - 5 * t) * 100

(***************************************************************************)
(* C1.  With at least one polarity word, analyze_sentiment returns         *)
(* 'positive' exactly when positives / total > 0.6, 'negative' exactly     *)
(* when positives / total < 0.4, and 'neutral' otherwise: the ratios 0.4   *)
(* and 0.6 themselves are neutral.                                         *)
(***************************************************************************)
C1_SentimentThresholds ==
  \A c \in Callers :
    AnalyzeDone(c) /\ TotalCount(c) > 0 =>
      LET p == PositiveCount(c)
          t == TotalCount(c)
      IN  /\ result[c].sentiment = "positive" <=> 10 * p > 6 * t
          /\ result[c].sentiment = "negative" <=> 10 * p < 4 * t
          /\ result[c].sentiment = "neutral"
               <=> (4 * t <= 10 * p /\ 10 * p <= 6 * t)

\* three positive words of five: the ratio is 0.6 and the result is neutral
C1_Witness ==
  \E c \in Callers :
    /\ AnalyzeDone(c)
    /\ PositiveCount(c) = 3
    /\ NegativeCount(c) = 2
    /\ result[c].sentiment = "neutral"

(***************************************************************************)
(* C2.  The confidence analyze_sentiment returns is, rounded to 2 decimal  *)
(* places: 50.0 without polarity words; min(60 + (ratio - 0.6) * 150, 98)  *)
(* when positive; min(60 + (0.4 - ratio) * 150, 98) when negative;         *)
(* 50 + |ratio - 0.5| * 100 when neutral with polarity words.              *)
(***************************************************************************)
C2_ConfidenceFormula ==
  \A c \in Callers :
    AnalyzeDone(c) =>
      LET p == PositiveCount(c)
          t == TotalCount(c)
      IN  IF t = 0
            THEN result[c].confidence = [num |-> 50, den |-> 1]
            ELSE IsRoundedTo2(result[c].confidence,
                              SpecConfidenceTimes10t(result[c].sentiment, p, t),
                              10 * t)

\* five positive words of seven: 60 + (5/7 - 0.6) * 150 = 77.142857...,
\* returned as 77.14
C2_Witness ==
  \E c \in Callers :
    /\ AnalyzeDone(c)
    /\ PositiveCount(c) = 5
    /\ NegativeCount(c) = 2
    /\ result[c].confidence = [num |-> 3857, den |-> 50]

(***************************************************************************)
(* C3.  The confidence analyze_sentiment returns is within [50, 98] when   *)
(* there is a polarity word and is exactly 50.0 when there is none.        *)
(***************************************************************************)
C3_ConfidenceRange ==
  \A c \in Callers :
    AnalyzeDone(c) =>
      LET conf == result[c].confidence
      IN  /\ 50 * conf.den <= conf.num
          /\ conf.num <= 98 * conf.den
          /\ TotalCount(c) = 0 => conf = [num |-> 50, den |-> 1]

\* positive words only: the formula gives 120 and the cap makes it 98
C3_Witness ==
  \E c \in Callers :
    /\ AnalyzeDone(c)
    /\ PositiveCount(c) > 0
    /\ NegativeCount(c) = 0
    /\ result[c].confidence = [num |-> 98, den |-> 1]

(***************************************************************************)
(* C4.  The emotions analyze_sentiment returns are exactly the emotions    *)
(* with a matching token, each with min(count / total hits * 100, 95), a   *)
(* value in (0, 95]: none is present with 0, and without a matching token  *)
(* the mapping is empty.                                                   *)
(***************************************************************************)
C4_EmotionScores ==
  \A c \in Callers :
    AnalyzeDone(c) =>
      LET em    == result[c].emotions
          total == TotalEmotionHits(arg[c])
          index(e) == CHOOSE k \in 1..Len(EMOTION_LEXICON) :
                        EMOTION_LEXICON[k][1] = e
      IN  /\ \A i, j \in 1..Len(em) : em[i][1] = em[j][1] => i = j
          /\ { em[i][1] : i \in 1..Len(em) }
               = { EMOTION_LEXICON[k][1] :
                     k \in { n \in 1..Len(EMOTION_LEXICON) :
                               EmotionHits(arg[c], n) > 0 } }
          /\ total = 0 => em = << >>
          /\ \A i \in 1..Len(em) :
               LET v    == em[i][2]
                   hits == EmotionHits(arg[c], index(em[i][1]))
               IN  /\ IF 100 * hits <= 95 * total
                        THEN v.num * total = 100 * hits * v.den
                        ELSE v = [num |-> 95, den |-> 1]
                   /\ 0 < v.num
                   /\ v.num <= 95 * v.den

\* two of the five emotions are hit, joy twice and sadness once: 66.67 and
\* 33.33, the other three are absent
C4_Witness ==
  \E c \in Callers :
    /\ AnalyzeDone(c)
    /\ Len(result[c].emotions) = 2
    /\ \E i \in 1..2 : result[c].emotions[i] = << "joy", [num |-> 200, den |-> 3] >>

(***************************************************************************)
(* C5.  positive_score is the number of occurrences of positive words and  *)
(* keywords.positive is those occurrences in input order, repeats kept;    *)
(* likewise for the negative words.  A token that also matches an emotion  *)
(* counts all the same.                                                    *)
(***************************************************************************)
C5_PolarityCounts ==
  \A c \in Callers :
    AnalyzeDone(c) =>
      /\ result[c].positive_score = PositiveCount(c)
      /\ result[c].negative_score = NegativeCount(c)
      /\ result[c].keywords.positive
           = OccurrencesFrom(arg[c], POSITIVE_WORDS, 1)
      /\ result[c].keywords.negative
           = OccurrencesFrom(arg[c], NEGATIVE_WORDS, 1)

\* 'happy' matches positive and joy, 'sad' negative and sadness, and 'happy'
\* occurs twice
C5_Witness ==
  \E c \in Callers :
    /\ AnalyzeDone(c)
    /\ arg[c] = << "happy", "sad", "good", "happy" >>
    /\ result[c].positive_score = 3
    /\ result[c].keywords.positive = << "happy", "good", "happy" >>
    /\ result[c].keywords.negative = << "sad" >>
    /\ Len(result[c].emotions) = 2

(***************************************************************************)
(* The words of a text, told without splitting it: a word starts where a   *)
(* character that is no whitespace follows whitespace or the start, and    *)
(* runs to the last character before whitespace or the end.                *)
(***************************************************************************)
WordStarts(text) ==
  { a \in 1..Len(text) :
      ~IsSpaceChar(text[a]) /\ (a = 1 \/ IsSpaceChar(text[a - 1])) }

WordEnd(text, a) ==
  CHOOSE b \in a..Len(text) :
    /\ \A k \in a..b : ~IsSpaceChar(text[k])
    /\ b = Len(text) \/ IsSpaceChar(text[b + 1])

WordAt(text, a) == Join(SubSeq(text, a, WordEnd(text, a)))

\* the starts of the words that are no stopword and longer than 2
QualifyingStarts(text) ==
  { a \in WordStarts(text) :
      ~InList(WordAt(text, a), STOPWORDS) /\ WordEnd(text, a) - a + 1 > 2 }

AllWhitespace(text) == \A k \in 1..Len(text) : IsSpaceChar(text[k])

(***************************************************************************)
(* C6.  The tokens preprocess_text returns are exactly the whitespace-     *)
(* split words of the cleaned text that are no stopword and longer than 2, *)
(* in their original relative order: none of them is a stopword or of      *)
(* length 2 or less, and no qualifying word is dropped or moved.           *)
(***************************************************************************)
C6_FilteredTokens ==
  \A c \in Callers :
    PreprocessDone(c) =>
      LET cleaned == result[c].cleaned
          tokens  == result[c].tokens
          kept    == QualifyingStarts(cleaned)
      IN  /\ Len(tokens) = Cardinality(kept)
          /\ \A a \in kept :
               tokens[1 + Cardinality({ x \in kept : x < a })]
                 = WordAt(cleaned, a)
          /\ \A k \in 1..Len(tokens) :
               ~InList(tokens[k], STOPWORDS) /\ Len(tokens[k]) > 2

\* "o_ joy!Sad": the short word is dropped, 'joy' and 'sad' stay in order
C6_Witness ==
  \E c \in Callers :
    /\ PreprocessDone(c)
    /\ arg[c] = << "o", "_", " ", "\t", "j", "o", "y", "!", "S", "a", "d" >>
    /\ result[c].word_count = 3
    /\ result[c].tokens = << "joy", "sad" >>

(***************************************************************************)
(* C7.  preprocess_text returns token_count equal to the length of tokens  *)
(* and token_count <= word_count.                                          *)
(***************************************************************************)
C7_TokenCount ==
  \A c \in Callers :
    PreprocessDone(c) =>
      /\ result[c].token_count = Len(result[c].tokens)
      /\ result[c].token_count <= result[c].word_count

\* the same word twice, both kept: the counts are equal
C7_Witness ==
  \E c \in Callers :
    /\ PreprocessDone(c)
    /\ result[c].tokens = << "sad", "sad" >>
    /\ result[c].token_count = 2
    /\ result[c].word_count = 2

(***************************************************************************)
(* C8.  analyze_sentiment returns the same positive_score, negative_score, *)
(* sentiment, confidence and emotions mapping for every permutation of the *)
(* tokens, while the keyword lists follow the order of the tokens given.   *)
(* Every permutation is a chain of exchanges of two neighbours and every   *)
(* list within the bounds is an input, so the formula compares each input  *)
(* with each exchange of two of its neighbours.                            *)
(***************************************************************************)
SwapAt(tokens, k) ==
  [i \in 1..Len(tokens) |->
     IF i = k THEN tokens[k + 1] ELSE IF i = k + 1 THEN tokens[k] ELSE tokens[i]]

AsMapping(dict) == { dict[i] : i \in 1..Len(dict) }

C8_OrderIndependent ==
  \A c \in Callers :
    AnalyzeDone(c) =>
      /\ result[c].keywords.positive
           = OccurrencesFrom(arg[c], POSITIVE_WORDS, 1)
      /\ result[c].keywords.negative
           = OccurrencesFrom(arg[c], NEGATIVE_WORDS, 1)
      /\ \A k \in 1..(Len(arg[c]) - 1) :
           LET swapped == analyze_sentiment(SwapAt(arg[c], k))
           IN  /\ swapped.positive_score = result[c].positive_score
               /\ swapped.negative_score = result[c].negative_score
               /\ swapped.sentiment = result[c].sentiment
               /\ swapped.confidence = result[c].confidence
               /\ AsMapping(swapped.emotions) = AsMapping(result[c].emotions)
               /\ swapped.keywords.positive
                    = OccurrencesFrom(SwapAt(arg[c], k), POSITIVE_WORDS, 1)
               /\ swapped.keywords.negative
                    = OccurrencesFrom(SwapAt(arg[c], k), NEGATIVE_WORDS, 1)

\* an exchange that changes the order of the keywords and of the emotions
\* found, and nothing else
C8_Witness ==
  \E c \in Callers :
    /\ AnalyzeDone(c)
    /\ arg[c] = << "sad", "happy", "good", "wow" >>
    /\ result[c].keywords.positive = << "happy", "good" >>
    /\ analyze_sentiment(SwapAt(arg[c], 2)).keywords.positive
         = << "good", "happy" >>
    /\ analyze_sentiment(SwapAt(arg[c], 1)).emotions # result[c].emotions

(***************************************************************************)
(* C9.  For an empty or whitespace-only text preprocess_text returns       *)
(* tokens = [], word_count = 0 and token_count = 0 and does not raise; for *)
(* the empty token list analyze_sentiment returns neutral, 50.0, no        *)
(* emotions and two empty keyword lists and does not raise.                *)
(***************************************************************************)
C9_EmptyInput ==
  \A c \in Callers :
    /\ op[c] = "preprocess_text" /\ AllWhitespace(arg[c]) =>
         /\ pc[c] # "raised"
         /\ pc[c] = "done" =>
              /\ result[c].tokens = << >>
              /\ result[c].word_count = 0
              /\ result[c].token_count = 0
    /\ op[c] = "analyze_sentiment" /\ arg[c] = << >> =>
         /\ pc[c] # "raised"
         /\ pc[c] = "done" =>
              /\ result[c].sentiment = "neutral"
              /\ result[c].confidence = [num |-> 50, den |-> 1]
              /\ result[c].emotions = << >>
              /\ result[c].keywords.positive = << >>
              /\ result[c].keywords.negative = << >>

\* a text of whitespace only has been preprocessed
C9_Witness ==
  \E c \in Callers :
    /\ PreprocessDone(c)
    /\ arg[c] = << " ", "\t", " ", "\t" >>
    /\ result[c].cleaned = << >>
    /\ result[c].tokens = << >>

(***************************************************************************)
(* C10.  When callers run preprocess_text and analyze_sentiment at once,   *)
(* their steps interleaved in any way, each call returns what it returns   *)
(* run alone on the same input, and the lexicons and each caller's input   *)
(* are never changed.                                                      *)
(***************************************************************************)
RunAlone(c) ==
  IF op[c] = "preprocess_text"
    THEN preprocess_text(arg[c])
    ELSE analyze_sentiment(arg[c])

C10_ConcurrentCalls ==
  /\ [](\A c \in Callers : pc[c] \in {"done", "raised"} => result[c] = RunAlone(c))
  /\ [](/\ POSITIVE_WORDS = PositiveWordsInit
        /\ NEGATIVE_WORDS = NegativeWordsInit
        /\ EMOTION_LEXICON = EmotionLexiconInit
        /\ STOPWORDS = StopwordsInit)
  /\ [][arg' = arg /\ lexicons' = lexicons]_vars

\* two callers have scored different lists, a third call (if any) being
\* anywhere, and got different results
C10_Witness ==
  \E c, d \in Callers :
    /\ AnalyzeDone(c)
    /\ AnalyzeDone(d)
    /\ arg[c] = << "happy", "sad" >>
    /\ arg[d] = << "sad", "wow", "happy" >>
    /\ result[c].emotions # result[d].emotions

(***************************************************************************)
(* The /analyze endpoint: analyze(), run by worker c for one request.      *)
(* The id and the timestamp of the result are the clock's and are left     *)
(* out.                                                                    *)
(***************************************************************************)
\* an exception of a class and with the message str(e) gives
Exception(class, message) == [raised |-> class, message |-> message]

\* str(e)
StrOf(e) == IF "message" \in DOMAIN e THEN e.message ELSE "division by zero"

\* A request: its body is no JSON ("none"), malformed JSON ("invalid"), the
\* JSON null or a JSON list, or a JSON object whose "text" is missing, a
\* string, a number or null.
Request(body, text_type, text) ==
  [body |-> body, text_type |-> text_type, text |-> text]

\* request.get_json(): what data may be, or the exception raised.  A body
\* that is no JSON raises 415 in Flask from 2.1 on and gives None before.
GetJsonOutcomes(req) ==
  CASE req.body = "none" ->
         { Exception("UnsupportedMediaType",
                     "415 Unsupported Media Type: Did not attempt to load JSON data because the request Content-Type was not 'application/json'."),
           [value |-> "None"] }
    [] req.body = "invalid" ->
         { Exception("BadRequest",
                     "400 Bad Request: Failed to decode JSON object") }
    [] req.body = "null" -> { [value |-> "None"] }
    [] req.body = "list" -> { [value |-> "list"] }
    [] OTHER -> { [value |-> "dict"] }

\* data.get('text', ''): the value, or the exception raised
DataGetText(data, req) ==
  CASE data.value = "None" ->
         Exception("AttributeError", "'NoneType' object has no attribute 'get'")
    [] data.value = "list" ->
         Exception("AttributeError", "'list' object has no attribute 'get'")
    [] OTHER ->
         IF req.text_type = "missing"
           THEN [type |-> "str", text |-> << >>]
           ELSE [type |-> req.text_type, text |-> req.text]

\* A slip: the text is not stripped.
StripTextMissing(v) == [text |-> v.text]

\* .strip() of the value got: the stripped str, or the exception raised
StripText(v) ==
  CASE v.type = "int" ->
         Exception("AttributeError", "'int' object has no attribute 'strip'")
    [] v.type = "null" ->
         Exception("AttributeError", "'NoneType' object has no attribute 'strip'")
    [] OTHER -> [text |-> Strip(v.text)]

\* text = data.get('text', '').strip()
RequestText(data, req) ==
  IF Raised(DataGetText(data, req))
    THEN DataGetText(data, req)
    ELSE StripText(DataGetText(data, req))

\* A slip: except AttributeError.
CaughtAttributeErrorOnly(e) == e.raised = "AttributeError"

\* except Exception: every exception of the model is an Exception
Caught(e) ==
  e.raised \in { "AttributeError", "BadRequest", "UnsupportedMediaType",
                 "ZeroDivisionError" }

\* a dict as the JSON object jsonify writes: the mapping of its keys
JsonObject(dict) ==
  [key \in { dict[k][1] : k \in 1..Len(dict) } |-> DictGet(dict, key, 0)]

\* return jsonify({'error': 'No text provided'}), 400
NoTextResponse == [code |-> 400, body |-> [error |-> "No text provided"]]

\* return jsonify({'error': str(e), 'status': 'error'}), 500
ErrorResponse(e) ==
  [code |-> 500, body |-> [error |-> StrOf(e), status |-> "error"]]

\* return jsonify(result)
SuccessResponse(text, preprocessed, analysis) ==
  [ code |-> 200,
    body |-> [ text         |-> text,
               preprocessed |-> preprocessed,
               analysis     |-> [analysis EXCEPT
                                   !.emotions = JsonObject(analysis.emotions)],
               status       |-> "success" ] ]

\* an exception e is raised inside the try block
HandlerFails(c, e) ==
  /\ hlocal' = [hlocal EXCEPT ![c].failure = << e >>]
  /\ IF Caught(e)
       THEN /\ response' = [response EXCEPT ![c] = ErrorResponse(e)]
            /\ hpc' = [hpc EXCEPT ![c] = "responded"]
       ELSE /\ hpc' = [hpc EXCEPT ![c] = "propagated"]
            /\ UNCHANGED response
  /\ UNCHANGED << op, arg, pc, calls >>

\* analyze() calls a core function
HandlerCalls(c, function, argument) ==
  /\ op' = [op EXCEPT ![c] = function]
  /\ arg' = [arg EXCEPT ![c] = argument]
  /\ pc' = [pc EXCEPT ![c] = FirstStep(function)]
  /\ calls' = [calls EXCEPT ![c] = Append(@, << function, argument >>)]

\* data = request.get_json(); text = ...; if not text: return ..., 400;
\* preprocessed = preprocess_text(text), up to the call
HandleRequest(c) ==
  /\ hpc[c] = "h_begin"
  /\ \E data \in GetJsonOutcomes(request[c]) :
       IF Raised(data) THEN HandlerFails(c, data)
       ELSE LET text == RequestText(data, request[c])
            IN  IF Raised(text) THEN HandlerFails(c, text)
                ELSE IF text.text = << >>
                  THEN /\ response' = [response EXCEPT ![c] = NoTextResponse]
                       /\ hpc' = [hpc EXCEPT ![c] = "responded"]
                       /\ UNCHANGED << op, arg, pc, calls, hlocal >>
                  ELSE /\ hlocal' = [hlocal EXCEPT ![c].text = text.text]
                       /\ HandlerCalls(c, "preprocess_text", text.text)
                       /\ hpc' = [hpc EXCEPT ![c] = "h_preprocess"]
                       /\ UNCHANGED response
  /\ UNCHANGED << lexicons, frame, result, request, dashboard >>

\* preprocess_text returns; analysis = analyze_sentiment(preprocessed['tokens']),
\* up to the call
HandlerPreprocessed(c) ==
  /\ hpc[c] = "h_preprocess"
  /\ pc[c] \in { "done", "raised" }
  /\ IF pc[c] = "raised" THEN HandlerFails(c, result[c])
     ELSE /\ hlocal' = [hlocal EXCEPT ![c].preprocessed = result[c]]
          /\ HandlerCalls(c, "analyze_sentiment", result[c].tokens)
          /\ hpc' = [hpc EXCEPT ![c] = "h_analyze"]
          /\ UNCHANGED response
  /\ UNCHANGED << lexicons, frame, result, request, dashboard >>

\* analyze_sentiment returns; result = {...}; return jsonify(result)
HandlerAnalyzed(c) ==
  /\ hpc[c] = "h_analyze"
  /\ pc[c] \in { "done", "raised" }
  /\ IF pc[c] = "raised" THEN HandlerFails(c, result[c])
     ELSE /\ response' = [response EXCEPT ![c] =
                 SuccessResponse(hlocal[c].text, hlocal[c].preprocessed,
                                 result[c])]
          /\ hpc' = [hpc EXCEPT ![c] = "responded"]
          /\ UNCHANGED << op, arg, pc, calls, hlocal >>
  /\ UNCHANGED << lexicons, frame, result, request, dashboard >>

\* "happy but a bit sad too"
HappyButSad ==
  << "h", "a", "p", "p", "y", " ", "b", "u", "t", " ", "a", " ", "b", "i",
     "t", " ", "s", "a", "d", " ", "t", "o", "o" >>

\* the texts posted
ApiTexts == TextsOf(MaxApiPieces) \cup { HappyButSad }

\* the requests a single worker gets
ApiRequests ==
  { Request(body, "missing", << >>) :
      body \in { "none", "invalid", "null", "list", "object" } }
    \cup { Request("object", "str", text) : text \in ApiTexts }
    \cup { Request("object", type, << >>) : type \in { "int", "null" } }

\* the workers in active have a request each to handle; no call is running
InitRequests(active, requests) ==
  \E req \in [active -> requests] :
    /\ request = [c \in Callers |-> IF c \in active THEN req[c] ELSE NoRequest]
    /\ hpc = [c \in Callers |-> IF c \in active THEN "h_begin" ELSE "idle"]
    /\ hlocal = [c \in Callers |->
                   [text |-> << >>, preprocessed |-> NoResult, failure |-> << >>]]
    /\ response = [c \in Callers |-> NoResponse]
    /\ calls = [c \in Callers |-> << >>]

\* one worker, any request within the bounds
InitApi ==
  /\ InitLexicons
  /\ InitCalls({}, {}, {})
  /\ InitRequests({1}, ApiRequests)
  /\ InitDashboard

NextApi ==
  \/ Next
  \/ \E c \in Callers :
       \/ HandleRequest(c)
       \/ HandlerPreprocessed(c)
       \/ HandlerAnalyzed(c)

SpecApi == InitApi /\ [][NextApi]_vars

(***************************************************************************)
(* C11.  /analyze answers a request whose text is missing, empty or        *)
(* whitespace-only with HTTP 400 and an error, and calls neither           *)
(* preprocess_text nor analyze_sentiment for it; for any other text it     *)
(* calls preprocess_text on the stripped text, then analyze_sentiment on   *)
(* exactly the tokens that returned, and returns both results with status  *)
(* 'success'.                                                              *)
(***************************************************************************)
\* the request carries a JSON object whose text is a string or is missing
HasText(c) ==
  request[c].body = "object" /\ request[c].text_type \in { "missing", "str" }

NoText(c) == request[c].text_type = "missing" \/ AllWhitespace(request[c].text)

IsPrefix(s, t) == Len(s) <= Len(t) /\ s = SubSeq(t, 1, Len(s))

C11_EndpointValidation ==
  \A c \in Callers :
    HasText(c) =>
      IF NoText(c)
        THEN /\ calls[c] = << >>
             /\ hpc[c] = "responded" =>
                  /\ response[c].code = 400
                  /\ "error" \in DOMAIN response[c].body
                  /\ "status" \notin DOMAIN response[c].body
        ELSE LET text         == Strip(request[c].text)
                 preprocessed == preprocess_text(text)
                 analysis     == analyze_sentiment(preprocessed.tokens)
             IN  /\ IsPrefix(calls[c],
                             << << "preprocess_text", text >>,
                                << "analyze_sentiment", preprocessed.tokens >> >>)
                 /\ hpc[c] = "responded" =>
                      /\ Len(calls[c]) = 2
                      /\ hlocal[c].preprocessed.tokens = calls[c][2][2]
                      /\ response[c].code = 200
                      /\ response[c].body.status = "success"
                      /\ response[c].body.text = text
                      /\ response[c].body.preprocessed = preprocessed
                      /\ response[c].body.analysis
                           = [analysis EXCEPT
                                !.emotions = JsonObject(analysis.emotions)]

\* a text with whitespace around it has been analyzed and answered
C11_Witness ==
  \E c \in Callers :
    /\ HasText(c)
    /\ ~ NoText(c)
    /\ Strip(request[c].text) # request[c].text
    /\ hpc[c] = "responded"
    /\ response[c].code = 200
    /\ Len(calls[c]) = 2

(***************************************************************************)
(* Every worker handles a request of its own, the requests drawn from a    *)
(* small set of failing and succeeding ones.                               *)
(***************************************************************************)
\* "Sad!"
SadText == << "S", "a", "d", "!" >>

ConcRequests ==
  { Request("none", "missing", << >>),
    Request("invalid", "missing", << >>),
    Request("list", "missing", << >>),
    Request("object", "int", << >>),
    Request("object", "str", SadText) }

InitApiConc ==
  /\ InitLexicons
  /\ InitCalls({}, {}, {})
  /\ InitRequests(Callers, ConcRequests)
  /\ InitDashboard

SpecApiConc == InitApiConc /\ [][NextApi]_vars

\* the handling of worker c's request has raised an exception
Failed(c) == hlocal[c].failure # << >>

\* the request of worker c cannot be handled: it has no JSON body, or no
\* JSON object, or a text that is no string
Unexpected(c) ==
  \/ request[c].body \in { "none", "invalid", "null", "list" }
  \/ request[c].body = "object" /\ request[c].text_type \in { "int", "null" }

(***************************************************************************)
(* C12, as stated.  Every failure is translated into one generic error     *)
(* result that does not depend on which failure occurred: any two failed   *)
(* requests get the same response.                                         *)
(***************************************************************************)
C12_GenericError ==
  \A c, d \in Callers :
    (Failed(c) /\ Failed(d) /\ hpc[c] = "responded" /\ hpc[d] = "responded")
      => response[c] = response[d]

(***************************************************************************)
(* C12, amended.  Any failure while /analyze handles a request (a request  *)
(* with no JSON body or a non-string text included) is caught and          *)
(* answered with HTTP 500 and status 'error', whatever the failure; the    *)
(* error message of the answer is the message of the failure.  The         *)
(* failure never propagates out of the handler and is never answered with  *)
(* status 'success'.                                                       *)
(***************************************************************************)
C12_CatchAll ==
  \A c \in Callers :
    /\ hpc[c] # "propagated"
    /\ (Unexpected(c) /\ hpc[c] = "responded") => Failed(c)
    /\ (Failed(c) /\ hpc[c] = "responded") =>
         /\ response[c].code = 500
         /\ DOMAIN response[c].body = { "error", "status" }
         /\ response[c].body.status = "error"
         /\ response[c].body.error = StrOf(hlocal[c].failure[1])
    /\ Failed(c) => hpc[c] = "responded"

\* a request with malformed JSON and one with a number as text have both
\* been answered
C12_Witness ==
  \E c, d \in Callers :
    /\ request[c].body = "invalid"
    /\ request[d].text_type = "int"
    /\ hpc[c] = "responded" /\ hpc[d] = "responded"
    /\ Failed(c) /\ Failed(d)
    /\ response[c].body.status = "error" /\ response[d].body.status = "error"

(***************************************************************************)
(* C13.  Running preprocess_text and then analyze_sentiment on "happy but  *)
(* a bit sad too" with the shipped lexicons yields positive_score 1,       *)
(* negative_score 1, sentiment neutral, confidence 50.0 and emotions       *)
(* exactly joy 50.0 and sadness 50.0, with 'happy' the only positive       *)
(* keyword and 'sad' the only negative keyword.                            *)
(***************************************************************************)
C13_HappyButSad ==
  \A c \in Callers :
    (request[c] = Request("object", "str", HappyButSad) /\ hpc[c] = "responded")
      => LET analysis == response[c].body.analysis
         IN  /\ response[c].body.status = "success"
             /\ analysis.positive_score = 1
             /\ analysis.negative_score = 1
             /\ analysis.sentiment = "neutral"
             /\ analysis.confidence = R(50)
             /\ DOMAIN analysis.emotions = { "joy", "sadness" }
             /\ analysis.emotions["joy"] = R(50)
             /\ analysis.emotions["sadness"] = R(50)
             /\ analysis.keywords.positive = << "happy" >>
             /\ analysis.keywords.negative = << "sad" >>

\* the sentence has gone through both functions and has been answered
C13_Witness ==
  \E c \in Callers :
    /\ request[c] = Request("object", "str", HappyButSad)
    /\ hpc[c] = "responded"
    /\ calls[c] = << << "preprocess_text", HappyButSad >>,
                     << "analyze_sentiment", << "happy", "but", "bit", "sad" >> >> >>
    /\ response[c].body.preprocessed.word_count = 6

(***************************************************************************)
(* C14.  With the shipped lexicons no word of POSITIVE_WORDS,              *)
(* NEGATIVE_WORDS or of an EMOTION_LEXICON set is in STOPWORDS or has      *)
(* length 2 or less, so the filter of preprocess_text never removes a word *)
(* analyze_sentiment would count: scoring the filtered tokens gives the    *)
(* same positive_score, negative_score, emotions and keyword lists as      *)
(* scoring the unfiltered whitespace-split words of the cleaned text.      *)
(***************************************************************************)
\* every word of a list passes the filter
AllKept(words) ==
  \A k \in 1..Len(words) : ~InList(words[k], STOPWORDS) /\ Len(words[k]) > 2

C14_FilterKeepsLexiconWords ==
  \A c \in Callers :
    PreprocessDone(c) =>
      LET filtered   == analyze_sentiment(result[c].tokens)
          unfiltered == analyze_sentiment(Split(result[c].cleaned))
      IN  /\ AllKept(POSITIVE_WORDS)
          /\ AllKept(NEGATIVE_WORDS)
          /\ \A k \in 1..Len(EMOTION_LEXICON) : AllKept(EMOTION_LEXICON[k][2])
          /\ filtered.positive_score = unfiltered.positive_score
          /\ filtered.negative_score = unfiltered.negative_score
          /\ filtered.emotions = unfiltered.emotions
          /\ filtered.keywords = unfiltered.keywords

\* the filter has removed a word of a text and has kept a lexicon word of it
C14_Witness ==
  \E c \in Callers :
    /\ PreprocessDone(c)
    /\ result[c].token_count < result[c].word_count
    /\ analyze_sentiment(result[c].tokens).negative_score > 0
    /\ analyze_sentiment(result[c].tokens).emotions # << >>

(***************************************************************************)
(* The dashboard client: analyzeText(), up to its await and from it on.    *)
(* A script runs to its next await before another handler runs, so each    *)
(* half is one step.  pending holds the texts of the requests in flight;   *)
(* newest is the last result received with status 'success'.               *)
(***************************************************************************)
\* if (history.length > 10) history.pop()
HistoryLimit == 10

\* String.prototype.trim()
Trim(text) == Strip(text)

\* what the fetch of a text may come to: the JSON the endpoint answers with
\* (the result, or the error of a failure in the handler), or an exception
\* when the request or the parsing of the answer fails
Answers(text) ==
  { IF Strip(text) = << >>
      THEN NoTextResponse.body
      ELSE SuccessResponse(Strip(text), preprocess_text(Strip(text)),
             analyze_sentiment(preprocess_text(Strip(text)).tokens)).body,
    ErrorResponse(Exception("Exception", "failure")).body,
    [thrown |-> "TypeError: Failed to fetch"] }

\* no exception, and result.status === 'success'
IsSuccess(answer) == "status" \in DOMAIN answer /\ answer.status = "success"

\* A slip: history.push(result).
HistoryPush(hist, answer) == Append(hist, answer)

\* history.unshift(result)
HistoryUnshift(hist, answer) == << answer >> \o hist

\* if (history.length > 10) history.pop()
HistoryPop(hist) ==
  IF Len(hist) > HistoryLimit THEN SubSeq(hist, 1, Len(hist) - 1) ELSE hist

\* stats.totalAnalyzed++; stats[result.analysis.sentiment]++
StatsCount(st, sentiment) ==
  [st EXCEPT !.totalAnalyzed = @ + 1, ![sentiment] = @ + 1]

JoyText == << "j", "o", "y" >>

\* the values of the text area: a positive, a negative and a neutral text
\* and a blank one
ClientTexts ==
  IF stats.totalAnalyzed + Len(pending) < MaxVaried
    THEN { JoyText, << "S", "a", "d", " " >>, << "h", "a", "d" >>, << " ", "\t" >> }
    ELSE { JoyText, << " ", "\t" >> }

\* analyzeText() is called, by a click on the button (which a disabled
\* button does not take) or by Ctrl+Enter in the text area, and runs to
\* its await: a blank text is refused, any other is sent
ClientSubmit(text, via) ==
  /\ via = "click" => ~ btn_disabled
  /\ IF Trim(text) = << >>
       THEN /\ outcome' = [rejected |-> "Please enter some text to analyze!"]
            /\ UNCHANGED << pending, btn_disabled >>
       ELSE /\ Len(pending) < MaxInFlight
            /\ stats.totalAnalyzed + Len(pending) < MaxAnalyzed
            /\ pending' = Append(pending, Trim(text))
            /\ btn_disabled' = TRUE
            /\ UNCHANGED outcome
  /\ UNCHANGED << stats, history, newest >>
  /\ UNCHANGED << lexicons, op, arg, pc, frame, result, endpoint >>

\* the fetch of the k-th request in flight comes to answer, and
\* analyzeText() runs from its await to its end
ClientReceive(k, answer) ==
  /\ k \in 1..Len(pending)
  /\ answer \in Answers(pending[k])
  /\ pending' = SubSeq(pending, 1, k - 1) \o SubSeq(pending, k + 1, Len(pending))
  /\ IF IsSuccess(answer)
       THEN /\ history' = HistoryPop(HistoryUnshift(history, answer))
            /\ stats' = StatsCount(stats, answer.analysis.sentiment)
            /\ newest' = answer
       ELSE UNCHANGED << history, stats, newest >>
  /\ outcome' = answer
  /\ btn_disabled' = FALSE
  /\ UNCHANGED << lexicons, op, arg, pc, frame, result, endpoint >>

\* the page is loaded and nothing runs on this side
InitClient ==
  /\ InitLexicons
  /\ InitCalls({}, {}, {})
  /\ IdleEndpoint
  /\ InitDashboard

NextClient ==
  \/ \E text \in ClientTexts, via \in { "click", "ctrl_enter" } :
       ClientSubmit(text, via)
  \/ \E k \in 1..Len(pending) :
       \E answer \in Answers(pending[k]) : ClientReceive(k, answer)

SpecClient == InitClient /\ [][NextClient]_vars

(***************************************************************************)
(* C15.  In the dashboard, after any sequence of analyze attempts          *)
(* (successful or failed, overlapping ones started with Ctrl+Enter         *)
(* included), history.length = min(stats.totalAnalyzed, 10),               *)
(* stats.totalAnalyzed = stats.positive + stats.negative + stats.neutral,  *)
(* the newest successful result is at index 0, and a failed or rejected    *)
(* attempt changes neither history nor stats.                              *)
(***************************************************************************)
Min(a, b) == IF a < b THEN a ELSE b

\* an attempt has ended and not with a result of status 'success': it was
\* refused for its blank text, or its request failed, or the answer is an
\* error
AttemptFailed ==
  /\ Len(pending') <= Len(pending)
  /\ \/ "rejected" \in DOMAIN outcome'
     \/ "thrown" \in DOMAIN outcome'
     \/ "error" \in DOMAIN outcome'

DashboardConsistent ==
  /\ Len(history) = Min(stats.totalAnalyzed, 10)
  /\ stats.totalAnalyzed = stats.positive + stats.negative + stats.neutral
  /\ newest # NoResult => (history # << >> /\ history[1] = newest)
  /\ "analysis" \in DOMAIN outcome => newest = outcome

C15_Dashboard ==
  /\ []DashboardConsistent
  /\ [][AttemptFailed => UNCHANGED << history, stats >>]_vars

\* eleven results have come in, of all three sentiments, and the oldest
\* has left the history
C15_Witness ==
  /\ stats.totalAnalyzed = 11
  /\ Len(history) = 10
  /\ stats.positive > 0 /\ stats.negative > 0 /\ stats.neutral > 0
  /\ history[1] = newest
  /\ history[10].analysis.sentiment # "positive"

============================================================================
